---- MODULE Spec2Model ----
(***************************************************************************)
(* Model of mypy/stubgen.py: the StubGenerator visitor that turns a parsed *)
(* module into a stub.  The syntax tree is the input (chosen in Init); the *)
(* generator's fields are the record `self`; every visit_* method is an    *)
(* operator from (self, node) to the new self, computed as the code does.  *)
(* Text is kept as real strings, so privacy tests, suffix tests, the       *)
(* `[:-1]` rewrite of the class header and the final join are computed.    *)
(***************************************************************************)
EXTENDS Integers, Sequences, FiniteSets, TLC

VARIABLES module, pc, self, result

vars == <<module, pc, self, result>>

----------------------------------------------------------------------------
(* Python string primitives used by the generator. *)

\* str.startswith
StartsWith(s, p) == Len(s) >= Len(p) /\ SubSeq(s, 1, Len(p)) = p

\* str.endswith
EndsWith(s, p) == Len(s) >= Len(p) /\ SubSeq(s, Len(s) - Len(p) + 1, Len(s)) = p

\* `sub in s` for strings
Contains(s, sub) ==
    \E k \in 1..(Len(s) - Len(sub) + 1) : SubSeq(s, k, k + Len(sub) - 1) = sub

\* ''.join(xs)
RECURSIVE Join(_)
Join(xs) == IF xs = <<>> THEN "" ELSE Head(xs) \o Join(Tail(xs))

\* sep.join(xs)
RECURSIVE JoinWith(_, _)
JoinWith(sep, xs) ==
    IF xs = <<>> THEN ""
    ELSE IF Len(xs) = 1 THEN xs[1]
    ELSE xs[1] \o sep \o JoinWith(sep, Tail(xs))

Digit(d) == <<"0", "1", "2", "3", "4", "5", "6", "7", "8", "9">>[d + 1]

\* str(n) for a non-negative integer literal
RECURSIVE IntStr(_)
IntStr(n) == IF n < 10 THEN Digit(n) ELSE IntStr(n \div 10) \o Digit(n % 10)

\* s[:n] for a string
StrPrefix(s, n) == IF n <= 0 THEN "" ELSE SubSeq(s, 1, n)

\* x in xs for a list
InList(x, xs) == \E k \in 1..Len(xs) : xs[k] = x

----------------------------------------------------------------------------
(* What was generated previously. *)

EMPTY == "EMPTY"
FUNC == "FUNC"
CLASS == "CLASS"
EMPTY_CLASS == "EMPTY_CLASS"
VAR == "VAR"

(* Argument kinds of mypy.nodes. *)
ARG_POS == "ARG_POS"
ARG_OPT == "ARG_OPT"
ARG_STAR == "ARG_STAR"
ARG_STAR2 == "ARG_STAR2"
ARG_NAMED == "ARG_NAMED"

(* The absent default of a parameter (o.init[i] is None). *)
None == [kind |-> "None"]

----------------------------------------------------------------------------
(* Syntax-tree nodes, as the parser hands them over. *)

NameExpr(n) == [kind |-> "NameExpr", name |-> n]
MemberExpr(e, n) == [kind |-> "MemberExpr", expr |-> e, name |-> n]
IntExpr(v) == [kind |-> "IntExpr", value |-> v]
StrExpr(v) == [kind |-> "StrExpr", value |-> v]
BytesExpr(v) == [kind |-> "BytesExpr", value |-> v]
FloatExpr(v) == [kind |-> "FloatExpr", value |-> v]
UnaryExpr(op, e) == [kind |-> "UnaryExpr", op |-> op, expr |-> e]
CallExpr(callee) == [kind |-> "CallExpr", callee |-> callee]
TupleExpr(items) == [kind |-> "TupleExpr", items |-> items]
ListExpr(items) == [kind |-> "ListExpr", items |-> items]
ComparisonExpr(ops, operands) ==
    [kind |-> "ComparisonExpr", operators |-> ops, operands |-> operands]

AssignmentStmt(lvalues, rvalue) ==
    [kind |-> "AssignmentStmt", lvalues |-> lvalues, rvalue |-> rvalue]
PassStmt == [kind |-> "PassStmt"]
ImportAll(id) == [kind |-> "ImportAll", id |-> id]
FuncDef(name, args, arg_kinds, init, body) ==
    [kind |-> "FuncDef", name |-> name, args |-> args, arg_kinds |-> arg_kinds,
     init |-> init, body |-> body]
Decorator(func, decorators) ==
    [kind |-> "Decorator", func |-> func, decorators |-> decorators]
ClassDef(name, base_type_exprs, defs) ==
    [kind |-> "ClassDef", name |-> name, base_type_exprs |-> base_type_exprs,
     defs |-> defs]
IfStmt(expr, body, else_body) ==
    [kind |-> "IfStmt", expr |-> expr, body |-> body, else_body |-> else_body]
MypyFile(defs) == [kind |-> "MypyFile", defs |-> defs]

----------------------------------------------------------------------------
(* StubGenerator: construction and the small helpers. *)

\* StubGenerator.__init__; exc is the exception in flight ("" when none)
StubGenerator ==
    [output |-> <<>>, import_lines |-> <<>>, imports |-> <<>>, indent |-> "",
     vars |-> << <<>> >>, state |-> EMPTY, classes |-> {}, exc |-> ""]

\* a privacy test that forgets the three reserved double-underscore names
is_private_name_plain(name) == StartsWith(name, "_") /\ ~EndsWith(name, "__")

is_private_name(name) ==
    StartsWith(name, "_") /\ (~EndsWith(name, "__")
                              \/ name \in {"__all__", "__author__", "__version__"})

add(g, string) == [g EXCEPT !.output = Append(@, string)]

\* add_import without the membership test
add_import_nodedup(g, name) == [g EXCEPT !.imports = Append(@, name)]

add_import(g, name) ==
    IF ~InList(name, g.imports) THEN [g EXCEPT !.imports = Append(@, name)] ELSE g

add_import_line(g, line) == [g EXCEPT !.import_lines = Append(@, line)]

\* add_init without the test on the names the scope has declared
add_init_again(g, lvalue) ==
    IF StartsWith(lvalue, "_")
          /\ (~EndsWith(lvalue, "__")
              \/ lvalue \in {"__all__", "__author__", "__version__"})
    THEN g
    ELSE LET g1 == [g EXCEPT !.vars[Len(g.vars)] = Append(@, lvalue)]
         IN  [g1 EXCEPT !.output = Append(@, g.indent \o lvalue \o " = Undefined(Any)\n"),
                        !.imports = @ \o SelectSeq(<<"Undefined", "Any">>,
                                                   LAMBDA n : ~InList(n, g.imports))]

\* add_init's effect on the generator
add_init(g, lvalue) ==
    IF InList(lvalue, g.vars[Len(g.vars)]) THEN g
    ELSE IF is_private_name(lvalue) THEN g
    ELSE LET g1 == [g EXCEPT !.vars[Len(g.vars)] = Append(@, lvalue)]
             g2 == add(g1, g.indent \o lvalue \o " = Undefined(Any)\n")
         IN  add_import(add_import(g2, "Undefined"), "Any")

\* add_init's return value
add_init_found(g, lvalue) ==
    ~InList(lvalue, g.vars[Len(g.vars)]) /\ ~is_private_name(lvalue)

\* StubGenerator.output
output(g) ==
    LET i1 == IF g.imports # <<>>
              THEN "from typing import " \o JoinWith(", ", g.imports) \o "\n"
              ELSE ""
        i2 == IF g.import_lines # <<>> THEN i1 \o Join(g.import_lines) ELSE i1
        i3 == IF i2 # "" THEN i2 \o "\n" ELSE i2
    IN  i3 \o Join(g.output)

----------------------------------------------------------------------------
(* The default traversal of mypy.traverser.TraverserVisitor: the child     *)
(* statements a visit_* method of the base class accepts, in order.        *)

RECURSIVE Concat(_)
Concat(blocks) == IF blocks = <<>> THEN <<>> ELSE Head(blocks) \o Concat(Tail(blocks))

Children(o) ==
    CASE o.kind = "MypyFile" -> o.defs
      [] o.kind = "FuncDef" ->
            SelectSeq(o.init, LAMBDA a : a # None) \o o.body
      [] o.kind = "ClassDef" -> o.defs
      [] o.kind = "IfStmt" -> Concat(o.body) \o o.else_body
      [] o.kind = "Decorator" -> <<o.func>>
      [] OTHER -> <<>>

----------------------------------------------------------------------------
(* Pre-pass collectors. *)

\* SelfTraverser: visit_assignment_stmt is overridden, the rest is the default
RECURSIVE SelfTraverser(_), SelfTraverserAll(_)
SelfTraverser(o) ==
    IF o.kind = "AssignmentStmt"
    THEN LET lvalue == o.lvalues[1]
         IN  IF /\ lvalue.kind = "MemberExpr"
                /\ lvalue.expr.kind = "NameExpr"
                /\ lvalue.expr.name = "self"
             THEN <<lvalue.name>>
             ELSE <<>>
    ELSE SelfTraverserAll(Children(o))

SelfTraverserAll(stmts) ==
    IF stmts = <<>> THEN <<>>
    ELSE SelfTraverser(Head(stmts)) \o SelfTraverserAll(Tail(stmts))

find_self_initializers(fdef) == SelfTraverser(fdef)

\* ClassTraverser: visit_class_def is overridden (and does not descend)
RECURSIVE ClassTraverser(_), ClassTraverserAll(_)
ClassTraverser(o) ==
    IF o.kind = "ClassDef" THEN {o.name} ELSE ClassTraverserAll(Children(o))

ClassTraverserAll(stmts) ==
    IF stmts = <<>> THEN {}
    ELSE ClassTraverser(Head(stmts)) \cup ClassTraverserAll(Tail(stmts))

find_classes(cdef) == ClassTraverser(cdef)

----------------------------------------------------------------------------
(* Function visit. *)

\* for init in self_inits: self.add_init(init)
RECURSIVE add_inits(_, _)
add_inits(g, names) ==
    IF names = <<>> THEN g ELSE add_inits(add_init(g, Head(names)), Tail(names))

\* the expression classes that carry a `value` attribute
HasValue(e) == e.kind \in {"IntExpr", "StrExpr", "BytesExpr", "FloatExpr"}

\* '%s' % e.value (a float's value is kept as its printed form)
ValueStr(e) == IF e.kind = "IntExpr" THEN IntStr(e.value) ELSE e.value

\* the rendering of one default value: [text, uses Undefined, exception]
render_default(rv) ==
    CASE rv.kind = "IntExpr" -> [text |-> IntStr(rv.value), undef |-> FALSE, exc |-> ""]
      [] rv.kind = "StrExpr" -> [text |-> "''", undef |-> FALSE, exc |-> ""]
      [] rv.kind = "BytesExpr" -> [text |-> "b''", undef |-> FALSE, exc |-> ""]
      [] rv.kind = "FloatExpr" -> [text |-> "0.0", undef |-> FALSE, exc |-> ""]
      [] rv.kind = "UnaryExpr" ->
            IF HasValue(rv.expr)
            THEN [text |-> "-" \o ValueStr(rv.expr), undef |-> FALSE, exc |-> ""]
            ELSE [text |-> "", undef |-> FALSE, exc |-> "AttributeError"]
      [] rv.kind = "NameExpr" /\ rv.name = "None" ->
            [text |-> rv.name, undef |-> FALSE, exc |-> ""]
      [] OTHER -> [text |-> "Undefined", undef |-> TRUE, exc |-> ""]

\* the bare `*` inserted before a defaulted keyword-only parameter
star_marker(kind, args) ==
    IF kind = ARG_NAMED /\ ~InList("*", args) THEN Append(args, "*") ELSE args

\* one parameter of the signature: the new [args, g]
render_arg(o, i, args, g) ==
    LET name == o.args[i]
        kind == o.arg_kinds[i]
        init == o.init[i]
    IN  IF init # None
        THEN LET args1 == star_marker(kind, args)
                 d == render_default(init.rvalue)
             IN  IF d.exc # ""
                 THEN [args |-> args1, g |-> [g EXCEPT !.exc = d.exc]]
                 ELSE [args |-> Append(args1, name \o "=" \o d.text),
                       g |-> IF d.undef THEN add_import(g, "Undefined") ELSE g]
        ELSE IF kind = ARG_STAR
        THEN [args |-> Append(args, "*" \o name), g |-> g]
        ELSE IF kind = ARG_STAR2
        THEN [args |-> Append(args, "**" \o name), g |-> g]
        ELSE [args |-> Append(args, name), g |-> g]

\* for i, (arg, kind) in enumerate(zip(o.args, o.arg_kinds))
RECURSIVE render_args(_, _, _, _)
render_args(o, i, args, g) ==
    IF i > Len(o.args) \/ i > Len(o.arg_kinds) \/ g.exc # ""
    THEN [args |-> args, g |-> g]
    ELSE LET r == render_arg(o, i, args, g)
         IN  render_args(o, i + 1, r.args, r.g)

\* the blank line before a top-level function that follows a non-function
func_separator(g) ==
    IF g.indent = "" /\ g.state \notin {EMPTY, FUNC} THEN add(g, "\n") ELSE g

\* a function visit that surfaces the attributes after the signature line
visit_func_def_late(g, o) ==
    IF is_private_name(o.name) THEN g
    ELSE LET g1 == func_separator(g)
             g2 == add(g1, g1.indent \o "def " \o o.name \o "(")
             r == render_args(o, 1, <<>>, g2)
         IN  IF r.g.exc # "" THEN r.g
             ELSE add_inits([add(add(r.g, JoinWith(", ", r.args)), "): pass\n")
                                EXCEPT !.state = FUNC],
                            find_self_initializers(o))

\* a function visit that records the function only at module level
visit_func_def_module_state(g, o) ==
    IF is_private_name(o.name) THEN g
    ELSE LET g1 == func_separator(g)
             g2 == add_inits(g1, find_self_initializers(o))
             g3 == add(g2, g2.indent \o "def " \o o.name \o "(")
             r == render_args(o, 1, <<>>, g3)
         IN  IF r.g.exc # "" THEN r.g
             ELSE [add(add(r.g, JoinWith(", ", r.args)), "): pass\n")
                      EXCEPT !.state = IF g.indent = "" THEN FUNC ELSE @]

visit_func_def(g, o) ==
    IF is_private_name(o.name) THEN g
    ELSE LET g1 == func_separator(g)
             g2 == add_inits(g1, find_self_initializers(o))
             g3 == add(g2, g2.indent \o "def " \o o.name \o "(")
             r == render_args(o, 1, <<>>, g3)
         IN  IF r.g.exc # "" THEN r.g
             ELSE [add(add(r.g, JoinWith(", ", r.args)), "): pass\n")
                      EXCEPT !.state = FUNC]

----------------------------------------------------------------------------
(* Assignment, wildcard import and decorator lines. *)

\* the blank line before a top-level variable that follows a non-variable
NeedsVarSeparator(g, sep) ==
    ~sep /\ g.indent = "" /\ g.state \notin {EMPTY, VAR}

\* for item in items: the new [g, sep, found]
RECURSIVE assign_items(_, _, _, _)
assign_items(g, items, sep, found) ==
    IF items = <<>> THEN [g |-> g, sep |-> sep, found |-> found]
    ELSE LET item == Head(items)
         IN  IF item.kind = "NameExpr"
             THEN LET doSep == NeedsVarSeparator(g, sep)
                      g1 == IF doSep THEN add(g, "\n") ELSE g
                  IN  assign_items(add_init(g1, item.name), Tail(items),
                                   sep \/ doSep,
                                   add_init_found(g1, item.name) \/ found)
             ELSE assign_items(g, Tail(items), sep, found)

visit_assignment_stmt(g, o) ==
    LET lvalue == o.lvalues[1]
        items == IF lvalue.kind \in {"TupleExpr", "ListExpr"}
                 THEN lvalue.items
                 ELSE <<lvalue>>
        r == assign_items(g, items, FALSE, FALSE)
    IN  IF r.found THEN [r.g EXCEPT !.state = VAR] ELSE r.g

visit_import_all(g, o) == add_import_line(g, "from " \o o.id \o " import *\n")

\* for decorator in o.decorators: the decorator lines
RECURSIVE decorator_lines(_, _)
decorator_lines(g, decorators) ==
    IF decorators = <<>> THEN g
    ELSE LET decorator == Head(decorators)
             g1 == IF /\ decorator.kind = "NameExpr"
                      /\ decorator.name \in {"property", "staticmethod", "classmethod"}
                   THEN add(g, g.indent \o "@" \o decorator.name \o "\n")
                   ELSE IF /\ decorator.kind = "MemberExpr"
                           /\ decorator.name = "setter"
                           /\ decorator.expr.kind = "NameExpr"
                   THEN add(g, g.indent \o "@" \o decorator.expr.name \o ".setter\n")
                   ELSE g
         IN  decorator_lines(g1, Tail(decorators))

----------------------------------------------------------------------------
(* Class and conditional visits, and the dispatch of node.accept(visitor). *)

\* the test of visit_if_stmt for `if __name__ == '__main__'`
IsMainGuard(o) ==
    LET expr == o.expr[1]
    IN  /\ expr.kind = "ComparisonExpr"
        /\ expr.operands[1].kind = "NameExpr"
        /\ expr.operands[2].kind = "StrExpr"
        /\ expr.operands[1].name = "__name__"
        /\ Contains(expr.operands[2].value, "__main__")

\* the base names a class header keeps
RECURSIVE base_types(_, _)
\* a base filter that knows declared classes only
RECURSIVE base_types_declared(_, _)
base_types_declared(g, bases) ==
    IF bases = <<>> THEN <<>>
    ELSE LET base == Head(bases)
         IN  IF base.kind = "NameExpr" /\ base.name \in g.classes
             THEN <<base.name>> \o base_types_declared(g, Tail(bases))
             ELSE base_types_declared(g, Tail(bases))

\* a base filter that also drops private names
RECURSIVE base_types_public(_, _)
base_types_public(g, bases) ==
    IF bases = <<>> THEN <<>>
    ELSE LET base == Head(bases)
         IN  IF /\ base.kind = "NameExpr"
                /\ ~(StartsWith(base.name, "_") /\ ~EndsWith(base.name, "__"))
                /\ \/ base.name \in g.classes
                   \/ EndsWith(base.name, "Exception")
                   \/ EndsWith(base.name, "Error")
             THEN <<base.name>> \o base_types_public(g, Tail(bases))
             ELSE base_types_public(g, Tail(bases))

base_types(g, bases) ==
    IF bases = <<>> THEN <<>>
    ELSE LET base == Head(bases)
         IN  IF /\ base.kind = "NameExpr"
                /\ \/ base.name \in g.classes
                   \/ EndsWith(base.name, "Exception")
                   \/ EndsWith(base.name, "Error")
             THEN <<base.name>> \o base_types(g, Tail(bases))
             ELSE base_types(g, Tail(bases))

\* a class visit that groups with a preceding function as functions do
ReservesSepUnlessFunc(g) == g.indent = "" /\ g.state \notin {EMPTY, FUNC}

\* whether visit_class_def binds `sep` and reserves the blank-line slot
ReservesSep(g) == g.indent = "" /\ g.state # EMPTY

\* a generator that blanks the slot whenever one was reserved
RetractsWheneverReserved(g) == g.indent = "" /\ g.state # EMPTY

\* the condition under which the reserved slot is blanked again
RetractsSep(g) == g.state = EMPTY_CLASS

\* visit_class_def up to the body: the header fragments
class_header(g, o) ==
    LET g1 == IF ReservesSep(g) THEN add(g, "\n") ELSE g
        g2 == add(g1, "class " \o o.name)
        bt == base_types(g, o.base_type_exprs)
        g3 == IF bt # <<>> THEN add(g2, "(" \o JoinWith(", ", bt) \o ")") ELSE g2
    IN  add(g3, ":\n")

\* a class visit that restores the indentation but keeps the scope it pushed
class_footer_keeps_scope(g, sep, n) ==
    LET g1 == [g EXCEPT !.indent = StrPrefix(@, Len(@) - 4)]
    IN  IF Len(g1.output) = n
        THEN IF RetractsSep(g1) /\ sep = 0
             THEN [g1 EXCEPT !.exc = "UnboundLocalError"]
             ELSE LET g2 == IF RetractsSep(g1)
                            THEN [g1 EXCEPT !.output[sep] = ""]
                            ELSE g1
                      last == g2.output[Len(g2.output)]
                  IN  [g2 EXCEPT !.output[Len(g2.output)] =
                                      StrPrefix(last, Len(last) - 1) \o " pass\n",
                                 !.state = EMPTY_CLASS]
        ELSE [g1 EXCEPT !.state = CLASS]

\* visit_class_def after the body; sep = 0 stands for the unbound local
class_footer(g, sep, n) ==
    LET g1 == [g EXCEPT !.indent = StrPrefix(@, Len(@) - 4),
                        !.vars = SubSeq(@, 1, Len(@) - 1)]
    IN  IF Len(g1.output) = n
        THEN IF RetractsSep(g1) /\ sep = 0
             THEN [g1 EXCEPT !.exc = "UnboundLocalError"]
             ELSE LET g2 == IF RetractsSep(g1)
                            THEN [g1 EXCEPT !.output[sep] = ""]
                            ELSE g1
                      last == g2.output[Len(g2.output)]
                  IN  [g2 EXCEPT !.output[Len(g2.output)] =
                                      StrPrefix(last, Len(last) - 1) \o " pass\n",
                                 !.state = EMPTY_CLASS]
        ELSE [g1 EXCEPT !.state = CLASS]

RECURSIVE accept(_, _), accept_all(_, _)

visit_class_def(g, o) ==
    LET sep == IF ReservesSep(g) THEN Len(g.output) + 1 ELSE 0
        g4 == class_header(g, o)
        n == Len(g4.output)
        g5 == [g4 EXCEPT !.indent = @ \o "    ", !.vars = Append(@, <<>>)]
        g6 == accept_all(g5, Children(o))
    IN  IF g6.exc # "" THEN g6 ELSE class_footer(g6, sep, n)

\* a conditional visit that skips the guarded body but not the else branch
visit_if_stmt_else(g, o) ==
    IF IsMainGuard(o) THEN accept_all(g, o.else_body) ELSE accept_all(g, Children(o))

visit_if_stmt(g, o) ==
    IF IsMainGuard(o) THEN g ELSE accept_all(g, Children(o))

visit_decorator(g, o) ==
    accept_all(decorator_lines(g, o.decorators), Children(o))

\* node.accept(self)
accept(g, o) ==
    CASE o.kind = "FuncDef" -> visit_func_def(g, o)
      [] o.kind = "Decorator" -> visit_decorator(g, o)
      [] o.kind = "ClassDef" -> visit_class_def(g, o)
      [] o.kind = "AssignmentStmt" -> visit_assignment_stmt(g, o)
      [] o.kind = "IfStmt" -> visit_if_stmt(g, o)
      [] o.kind = "ImportAll" -> visit_import_all(g, o)
      [] OTHER -> g

\* a block: statements in order, until one raises
accept_all(g, stmts) ==
    IF stmts = <<>> \/ g.exc # "" THEN g
    ELSE accept_all(accept(g, Head(stmts)), Tail(stmts))

----------------------------------------------------------------------------
(* The inputs: every module of at most MaxNodes statements built from the  *)
(* statements and the class and conditional headers below.                 *)

MaxNodes == 3

SomeCall == CallExpr(NameExpr("some_call"))

\* def f(x=some_call()): pass
FuncF ==
    FuncDef("f", <<"x">>, <<ARG_OPT>>,
            <<AssignmentStmt(<<NameExpr("x")>>, SomeCall)>>, <<PassStmt>>)

\* def __init__(self, n=3, *args, k=-1, **kw):
\*     self.y = 1; self.y = 2; self._q = 0; self.x = 1
FuncInit ==
    FuncDef("__init__", <<"self", "n", "args", "k", "kw">>,
            <<ARG_POS, ARG_OPT, ARG_STAR, ARG_NAMED, ARG_STAR2>>,
            <<None, AssignmentStmt(<<NameExpr("n")>>, IntExpr(3)), None,
              AssignmentStmt(<<NameExpr("k")>>, UnaryExpr("-", IntExpr(1))), None>>,
            <<AssignmentStmt(<<MemberExpr(NameExpr("self"), "y")>>, IntExpr(1)),
              AssignmentStmt(<<MemberExpr(NameExpr("self"), "y")>>, IntExpr(2)),
              AssignmentStmt(<<MemberExpr(NameExpr("self"), "_q")>>, IntExpr(0)),
              AssignmentStmt(<<MemberExpr(NameExpr("self"), "x")>>, IntExpr(1))>>)

\* def _p(self, v=some_call()): self.z = 1
FuncPriv ==
    FuncDef("_p", <<"self", "v">>, <<ARG_POS, ARG_OPT>>,
            <<None, AssignmentStmt(<<NameExpr("v")>>, SomeCall)>>,
            <<AssignmentStmt(<<MemberExpr(NameExpr("self"), "z")>>, IntExpr(1))>>)

\* def lits(a='s', b=b's', c=1.5, d=None, e=y, t=(1,), h=-1.5, i=-'s'): pass
FuncLits ==
    FuncDef("lits", <<"a", "b", "c", "d", "e", "t", "h", "i">>,
            <<ARG_OPT, ARG_OPT, ARG_OPT, ARG_OPT, ARG_OPT, ARG_OPT, ARG_OPT, ARG_OPT>>,
            <<AssignmentStmt(<<NameExpr("a")>>, StrExpr("s")),
              AssignmentStmt(<<NameExpr("b")>>, BytesExpr("s")),
              AssignmentStmt(<<NameExpr("c")>>, FloatExpr("1.5")),
              AssignmentStmt(<<NameExpr("d")>>, NameExpr("None")),
              AssignmentStmt(<<NameExpr("e")>>, NameExpr("y")),
              AssignmentStmt(<<NameExpr("t")>>, TupleExpr(<<IntExpr(1)>>)),
              AssignmentStmt(<<NameExpr("h")>>, UnaryExpr("-", FloatExpr("1.5"))),
              AssignmentStmt(<<NameExpr("i")>>, UnaryExpr("-", StrExpr("s")))>>,
            <<PassStmt>>)

\* def neg(d=-y): pass
FuncNegName ==
    FuncDef("neg", <<"d">>, <<ARG_OPT>>,
            <<AssignmentStmt(<<NameExpr("d")>>, UnaryExpr("-", NameExpr("y")))>>,
            <<PassStmt>>)

\* def negc(d=-some_call()): pass
FuncNegCall ==
    FuncDef("negc", <<"d">>, <<ARG_OPT>>,
            <<AssignmentStmt(<<NameExpr("d")>>, UnaryExpr("-", SomeCall))>>,
            <<PassStmt>>)

\* def plus(d=+1): pass
FuncPlus ==
    FuncDef("plus", <<"d">>, <<ARG_OPT>>,
            <<AssignmentStmt(<<NameExpr("d")>>, UnaryExpr("+", IntExpr(1)))>>,
            <<PassStmt>>)

\* def kw(a, *, k=1, m=2): pass
FuncKw ==
    FuncDef("kw", <<"a", "k", "m">>, <<ARG_POS, ARG_NAMED, ARG_NAMED>>,
            <<None, AssignmentStmt(<<NameExpr("k")>>, IntExpr(1)),
              AssignmentStmt(<<NameExpr("m")>>, IntExpr(2))>>,
            <<PassStmt>>)

\* x = 1
AssignX == AssignmentStmt(<<NameExpr("x")>>, IntExpr(1))

\* [a.b, __all__] = some_call()
AssignPriv ==
    AssignmentStmt(<<ListExpr(<<MemberExpr(NameExpr("a"), "b"),
                                NameExpr("__all__")>>)>>, SomeCall)

\* from m import *
ImportStar == ImportAll("m")

\* @property / @some_call() / @f.setter on f
DecF ==
    Decorator(FuncF, <<NameExpr("property"), SomeCall,
                       MemberExpr(NameExpr("f"), "setter")>>)

\* @staticmethod on _p
DecPriv == Decorator(FuncPriv, <<NameExpr("staticmethod")>>)

\* class A(X, _P, m.B, KeyError, _AppError): ...
ClsA ==
    [kind |-> "ClassDef", name |-> "A",
     bases |-> <<NameExpr("X"), NameExpr("_P"), MemberExpr(NameExpr("m"), "B"),
                 NameExpr("KeyError"), NameExpr("_AppError")>>]

\* class _P(A, X): ...
ClsP ==
    [kind |-> "ClassDef", name |-> "_P", bases |-> <<NameExpr("A"), NameExpr("X")>>]

\* if __name__ == '__main__': ...
IfMainEq ==
    [kind |-> "IfStmt",
     cond |-> ComparisonExpr(<<"==">>, <<NameExpr("__name__"), StrExpr("__main__")>>)]

\* if __name__ != '__main__': ...
IfMainNe ==
    [kind |-> "IfStmt",
     cond |-> ComparisonExpr(<<"!=">>, <<NameExpr("__name__"), StrExpr("__main__")>>)]

\* if '__main__' == __name__: ...
IfOther ==
    [kind |-> "IfStmt",
     cond |-> ComparisonExpr(<<"==">>, <<StrExpr("__main__"), NameExpr("__name__")>>)]

\* a block as parsed: an empty suite is written `pass`
Body(b) == IF b = <<>> THEN <<PassStmt>> ELSE b

\* a header with its suite; a conditional's first statement is its `if`
\* branch, the rest its `else` branch
Wrap(h, b) ==
    IF h.kind = "ClassDef" THEN ClassDef(h.name, h.bases, Body(b))
    ELSE IfStmt(<<h.cond>>,
                <<Body(IF b = <<>> THEN <<>> ELSE <<Head(b)>>)>>,
                IF b = <<>> THEN <<>> ELSE Tail(b))

\* the statements and headers by name
Leaf(sym) ==
    CASE sym = "FuncF" -> FuncF
      [] sym = "FuncInit" -> FuncInit
      [] sym = "FuncPriv" -> FuncPriv
      [] sym = "FuncLits" -> FuncLits
      [] sym = "FuncNegName" -> FuncNegName
      [] sym = "FuncNegCall" -> FuncNegCall
      [] sym = "FuncPlus" -> FuncPlus
      [] sym = "FuncKw" -> FuncKw
      [] sym = "DecF" -> DecF
      [] sym = "DecPriv" -> DecPriv
      [] sym = "AssignX" -> AssignX
      [] sym = "AssignPriv" -> AssignPriv
      [] sym = "ImportStar" -> ImportStar

Header(sym) ==
    CASE sym = "ClsA" -> ClsA
      [] sym = "ClsP" -> ClsP
      [] sym = "IfMainEq" -> IfMainEq
      [] sym = "IfMainNe" -> IfMainNe
      [] sym = "IfOther" -> IfOther

\* A module of n statements is written in document order: sym[i] names the
\* i-th statement or header and depth[i] its nesting depth.
IsShape(n, depth) ==
    \A i \in 1..n : IF i = 1 THEN depth[i] = 0 ELSE depth[i] <= depth[i - 1] + 1

\* only a header has a suite
IsLabelling(headers, n, sym, depth) ==
    \A i \in 2..n : depth[i] = depth[i - 1] + 1 => sym[i - 1] \in headers

\* the statement after the suite of statement i
RECURSIVE NextAt(_, _, _)
NextAt(depth, i, j) ==
    IF j > Len(depth) \/ depth[j] <= depth[i] THEN j ELSE NextAt(depth, i, j + 1)

\* the syntax tree of statement i, and of the block at depth d that starts at i
RECURSIVE Tree(_, _, _, _), TreeBlock(_, _, _, _, _)
Tree(headers, sym, depth, i) ==
    IF sym[i] \in headers
    THEN Wrap(Header(sym[i]), TreeBlock(headers, sym, depth, i + 1, depth[i] + 1))
    ELSE Leaf(sym[i])

TreeBlock(headers, sym, depth, i, d) ==
    IF i > Len(sym) \/ depth[i] < d THEN <<>>
    ELSE <<Tree(headers, sym, depth, i)>>
            \o TreeBlock(headers, sym, depth, NextAt(depth, i, i + 1), d)

\* mypy.parse.parse(source)
Parse(headers, sym, depth) == MypyFile(Body(TreeBlock(headers, sym, depth, 1, 0)))

\* the state after construction, for every module over the given statements
InitOver(leaves, headers) ==
    /\ \E n \in 0..MaxNodes :
         \E depth \in [1..n -> 0..(n - 1)] :
            /\ IsShape(n, depth)
            /\ \E sym \in [1..n -> leaves \cup headers] :
                  /\ IsLabelling(headers, n, sym, depth)
                  /\ module = Parse(headers, sym, depth)
    /\ pc = 0
    /\ self = StubGenerator
    /\ result = ""

----------------------------------------------------------------------------
(* The run of generate_stub: parse, visit_mypy_file, one accept per        *)
(* top-level statement, then the serialization.                            *)

\* declarations, classes and an ordinary conditional
Init ==
    InitOver({"FuncF", "FuncInit", "FuncPriv", "DecF", "AssignX", "AssignPriv",
              "ImportStar"},
             {"ClsA", "ClsP", "IfOther"})

\* the top-level statement about to be visited
Visiting(kind) ==
    /\ pc \in 1..Len(module.defs)
    /\ self.exc = ""
    /\ module.defs[pc].kind = kind

VisitMypyFile ==
    /\ pc = 0
    /\ self' = [self EXCEPT !.classes = find_classes(module)]
    /\ pc' = 1
    /\ UNCHANGED <<module, result>>

AcceptFuncDef ==
    /\ Visiting("FuncDef")
    /\ self' = visit_func_def(self, module.defs[pc])
    /\ pc' = pc + 1
    /\ UNCHANGED <<module, result>>

AcceptDecorator ==
    /\ Visiting("Decorator")
    /\ self' = visit_decorator(self, module.defs[pc])
    /\ pc' = pc + 1
    /\ UNCHANGED <<module, result>>

AcceptClassDef ==
    /\ Visiting("ClassDef")
    /\ self' = visit_class_def(self, module.defs[pc])
    /\ pc' = pc + 1
    /\ UNCHANGED <<module, result>>

AcceptAssignmentStmt ==
    /\ Visiting("AssignmentStmt")
    /\ self' = visit_assignment_stmt(self, module.defs[pc])
    /\ pc' = pc + 1
    /\ UNCHANGED <<module, result>>

AcceptIfStmt ==
    /\ Visiting("IfStmt")
    /\ self' = visit_if_stmt(self, module.defs[pc])
    /\ pc' = pc + 1
    /\ UNCHANGED <<module, result>>

AcceptImportAll ==
    /\ Visiting("ImportAll")
    /\ self' = visit_import_all(self, module.defs[pc])
    /\ pc' = pc + 1
    /\ UNCHANGED <<module, result>>

AcceptPassStmt ==
    /\ Visiting("PassStmt")
    /\ pc' = pc + 1
    /\ UNCHANGED <<module, self, result>>

\* file.write(''.join(gen.output()))
Output ==
    /\ pc = Len(module.defs) + 1
    /\ self.exc = ""
    /\ result' = output(self)
    /\ pc' = pc + 1
    /\ UNCHANGED <<module, self>>

Next ==
    \/ VisitMypyFile
    \/ AcceptFuncDef
    \/ AcceptDecorator
    \/ AcceptClassDef
    \/ AcceptAssignmentStmt
    \/ AcceptIfStmt
    \/ AcceptImportAll
    \/ AcceptPassStmt
    \/ Output

Spec == Init /\ [][Next]_vars

\* conditionals around declarations
InitIf ==
    InitOver({"FuncF", "DecF", "AssignX", "ImportStar"},
             {"ClsA", "IfMainEq", "IfMainNe", "IfOther"})

SpecIf == InitIf /\ [][Next]_vars

\* functions: default values, parameter lists and decorators
InitFunc ==
    InitOver({"FuncLits", "FuncNegName", "FuncNegCall", "FuncPlus", "FuncKw",
              "FuncInit", "DecF", "DecPriv", "AssignX", "ImportStar"},
             {"ClsA", "IfOther"})

SpecFunc == InitFunc /\ [][Next]_vars

\* the run is over and the stub is written
Written == pc = Len(module.defs) + 2

TypeOK ==
    /\ pc \in 0..(Len(module.defs) + 2)
    /\ self.state \in {EMPTY, FUNC, CLASS, EMPTY_CLASS, VAR}
    /\ self.exc \in {"", "UnboundLocalError", "AttributeError"}

----------------------------------------------------------------------------
(* Reading the generated text back: lines, lists, indentation. *)

\* the places where sep occurs in s
SepAt(s, sep) ==
    {i \in 1..(Len(s) - Len(sep) + 1) : SubSeq(s, i, i + Len(sep) - 1) = sep}

\* the k-th smallest element of a set of numbers
Nth(P, k) == CHOOSE i \in P : Cardinality({j \in P : j < i}) = k - 1

\* s.split(sep) for a separator that cannot overlap itself
Split(s, sep) ==
    LET P == SepAt(s, sep)
        n == Cardinality(P)
    IN  [k \in 1..(n + 1) |->
            LET a == IF k = 1 THEN 1 ELSE Nth(P, k - 1) + Len(sep)
                b == IF k = n + 1 THEN Len(s) ELSE Nth(P, k) - 1
            IN  IF a > b THEN "" ELSE SubSeq(s, a, b)]

\* the lines of a text that ends every line with a line break
LinesOf(text) ==
    LET parts == Split(text, "\n")
    IN  IF text = "" THEN <<>> ELSE SubSeq(parts, 1, Len(parts) - 1)

\* the lines a list of fragments spells; a fragment ends a line when it
\* ends with a line break, and holds no other line break
RECURSIVE FragmentLines(_, _)
FragmentLines(frags, cur) ==
    IF frags = <<>> THEN (IF cur = "" THEN <<>> ELSE <<cur>>)
    ELSE LET f == Head(frags)
         IN  IF EndsWith(f, "\n")
             THEN <<cur \o StrPrefix(f, Len(f) - 1)>> \o FragmentLines(Tail(frags), "")
             ELSE FragmentLines(Tail(frags), cur \o f)

\* the lines of the Output Buffer
Lines(g) == FragmentLines(g.output, "")

\* the fragments of the Output Buffer spell the lines of its text
FragmentLinesAreLines == Lines(self) = LinesOf(Join(self.output))

\* how often x occurs in the list xs
Count(x, xs) == Cardinality({k \in 1..Len(xs) : xs[k] = x})

\* the indentation of nesting level d
RECURSIVE Indent(_)
Indent(d) == IF d = 0 THEN "" ELSE "    " \o Indent(d - 1)

\* the private-name predicate, as the specification words it
PrivateName(name) ==
    /\ StartsWith(name, "_")
    /\ \/ ~EndsWith(name, "__")
       \/ name = "__all__" \/ name = "__author__" \/ name = "__version__"

\* the functions the generator renders, each with its nesting level
RECURSIVE RenderedFuncs(_, _)
RenderedFuncs(stmts, d) ==
    IF stmts = <<>> THEN {}
    ELSE LET o == Head(stmts)
             here ==
                CASE o.kind = "FuncDef" ->
                        IF PrivateName(o.name) THEN {} ELSE {[func |-> o, depth |-> d]}
                  [] o.kind = "Decorator" -> RenderedFuncs(<<o.func>>, d)
                  [] o.kind = "ClassDef" -> RenderedFuncs(o.defs, d + 1)
                  [] o.kind = "IfStmt" ->
                        IF IsMainGuard(o) THEN {} ELSE RenderedFuncs(Children(o), d)
                  [] OTHER -> {}
         IN  here \cup RenderedFuncs(Tail(stmts), d)

\* a default value of the literal table of the function visit
InLiteralTable(rv) ==
    \/ rv.kind \in {"IntExpr", "StrExpr", "BytesExpr", "FloatExpr"}
    \/ rv.kind = "UnaryExpr" /\ rv.op = "-" /\ HasValue(rv.expr)
    \/ rv.kind = "NameExpr" /\ rv.name = "None"

\* the parameters of o whose default is outside the literal table
OtherDefaults(o) ==
    {o.args[i] : i \in {k \in 1..Len(o.args) :
                          o.init[k] # None /\ ~InLiteralTable(o.init[k].rvalue)}}

\* some signature line of function r renders parameter a as `a=Undefined`
RendersUndefined(text, r, a) ==
    LET L == LinesOf(text)
    IN  \E k \in 1..Len(L) :
        LET line == L[k]
        IN  /\ StartsWith(line, Indent(r.depth) \o "def " \o r.func.name \o "(")
            /\ \/ Contains(line, "(" \o a \o "=Undefined,")
               \/ Contains(line, "(" \o a \o "=Undefined)")
               \/ Contains(line, ", " \o a \o "=Undefined,")
               \/ Contains(line, ", " \o a \o "=Undefined)")

\* the helper symbols the import line of a serialized stub lists
HelperSymbols(text) ==
    LET L == LinesOf(text)
        first == IF L = <<>> THEN "" ELSE L[1]
        head == "from typing import "
    IN  IF StartsWith(first, head) /\ Len(first) > Len(head)
        THEN Split(SubSeq(first, Len(head) + 1, Len(first)), ", ")
        ELSE <<>>

\* some line of the text declares a placeholder variable
HasPlaceholderLine(text) ==
    LET L == LinesOf(text)
    IN  \E k \in 1..Len(L) : EndsWith(L[k], " = Undefined(Any)")

\* the rendered functions that have a default outside the literal table
UndefinedCases == {r \in RenderedFuncs(module.defs, 0) : OtherDefaults(r.func) # {}}

----------------------------------------------------------------------------
----------------------------------------------------------------------------
(* Reading the input back: what a statement declares. *)

\* the targets of an assignment statement
Targets(o) ==
    LET lvalue == o.lvalues[1]
    IN  IF lvalue.kind \in {"TupleExpr", "ListExpr"} THEN lvalue.items ELSE <<lvalue>>

\* the assignment has a simple-name target
HasNameTarget(o) ==
    \E k \in 1..Len(Targets(o)) : Targets(o)[k].kind = "NameExpr"

\* the assignment has a simple-name target that is not private
HasPublicNameTarget(o) ==
    \E k \in 1..Len(Targets(o)) :
        Targets(o)[k].kind = "NameExpr" /\ ~PrivateName(Targets(o)[k].name)

\* a class body of private members and no-ops only
RECURSIVE AppendsNothing(_)
AppendsNothing(stmts) ==
    \A k \in 1..Len(stmts) :
        LET o == stmts[k]
        IN  CASE o.kind = "FuncDef" -> PrivateName(o.name)
              [] o.kind = "AssignmentStmt" -> ~HasPublicNameTarget(o)
              [] o.kind = "IfStmt" -> IsMainGuard(o) \/ AppendsNothing(Children(o))
              [] o.kind \in {"PassStmt", "ImportAll"} -> TRUE
              [] OTHER -> FALSE

\* a base reference that the class header keeps
Qualifies(base) ==
    /\ base.kind = "NameExpr"
    /\ \/ base.name \in find_classes(module)
       \/ EndsWith(base.name, "Exception")
       \/ EndsWith(base.name, "Error")

\* the header line of class o, without its line break
ExpectedHeader(o) ==
    LET kept == SelectSeq(o.base_type_exprs, Qualifies)
        names == [k \in 1..Len(kept) |-> kept[k].name]
    IN  "class " \o o.name
            \o (IF names = <<>> THEN "" ELSE "(" \o JoinWith(", ", names) \o ")")
            \o ":"

\* a top-level statement is being visited
TopLevelStep == pc \in 1..Len(module.defs) /\ self.exc = "" /\ pc' = pc + 1

\* a top-level class with an empty body
IsEmptyClass(o) == o.kind = "ClassDef" /\ AppendsNothing(o.defs)

\* the statement being visited is a top-level class with an empty body
EmptyClassStep == TopLevelStep /\ IsEmptyClass(module.defs[pc])

\* the statement being visited directly follows a top-level empty class
AfterEmptyClassStep ==
    TopLevelStep /\ pc >= 2 /\ IsEmptyClass(module.defs[pc - 1])

\* the text the step appends to the Output Buffer
Appended ==
    LET old == Join(self.output)
        new == Join(self'.output)
    IN  IF Len(new) > Len(old) THEN SubSeq(new, Len(old) + 1, Len(new)) ELSE ""

\* the lines the step appends to the Output Buffer
AppendedLines ==
    IF Len(self'.output) > Len(self.output)
    THEN FragmentLines(SubSeq(self'.output, Len(self.output) + 1, Len(self'.output)), "")
    ELSE <<>>

\* the declarations that separate themselves from a preceding empty class
SeparatesItself(o) ==
    \/ o.kind = "FuncDef" /\ ~PrivateName(o.name)
    \/ o.kind = "AssignmentStmt" /\ HasNameTarget(o)
    \/ o.kind = "ClassDef" /\ ~AppendsNothing(o.defs)

\* the declarations that append no blank line after an empty class
SeparatesNothing(o) ==
    \/ o.kind = "FuncDef" /\ PrivateName(o.name)
    \/ o.kind = "AssignmentStmt" /\ ~HasNameTarget(o)
    \/ o.kind = "ClassDef" /\ AppendsNothing(o.defs)
    \/ o.kind \in {"PassStmt", "ImportAll"}

----------------------------------------------------------------------------
(* C2: a top-level class whose body appends nothing renders on one line as *)
(* `class C: pass`, with a base list only if some base qualified.  A blank *)
(* line precedes it exactly when the Formatting State before it is         *)
(* function, variable or non-empty class; none when it is the first        *)
(* declaration or follows another empty class.  After it, a non-private    *)
(* function, an assignment with a simple-name target and a non-empty class *)
(* each begin with their blank line; another empty class, a private        *)
(* function, a wildcard import and a no-op append no blank line.           *)
C2_EmptyClassCollapse ==
    [][ /\ EmptyClassStep =>
            /\ self'.exc = ""
            /\ Join(self'.output) =
                  Join(self.output)
                     \o (IF self.state \in {EMPTY, EMPTY_CLASS} THEN "" ELSE "\n")
                     \o ExpectedHeader(module.defs[pc]) \o " pass\n"
        /\ AfterEmptyClassStep =>
            /\ SeparatesItself(module.defs[pc]) => StartsWith(Appended, "\n")
            /\ SeparatesNothing(module.defs[pc]) => ~StartsWith(Appended, "\n")
      ]_vars

\* C2 as stated: no blank line before the class line or after it, whatever
\* the declaration before and whatever the declaration after.
C2_Original ==
    [][ /\ EmptyClassStep =>
            /\ self'.exc = ""
            /\ Join(self'.output) =
                  Join(self.output) \o ExpectedHeader(module.defs[pc]) \o " pass\n"
        /\ AfterEmptyClassStep => ~StartsWith(Appended, "\n")
      ]_vars

\* two empty classes and then a function: one blank line, before the function
C2_Witness ==
    /\ pc = 4
    /\ Len(module.defs) = 3
    /\ IsEmptyClass(module.defs[1]) /\ IsEmptyClass(module.defs[2])
    /\ module.defs[1].name = "A" /\ module.defs[2].name = "_P"
    /\ module.defs[3] = FuncF
    /\ Join(self.output) =
          "class A(_P, KeyError, _AppError): pass\nclass _P(A): pass\n\ndef f(x=Undefined): pass\n"

----------------------------------------------------------------------------
(* Reading declaration lines back. *)

\* a line without its indentation
RECURSIVE Strip(_)
Strip(line) ==
    IF StartsWith(line, " ") THEN Strip(SubSeq(line, 2, Len(line))) ELSE line

\* the line declares a placeholder variable
IsPlaceholderLine(line) ==
    EndsWith(line, " = Undefined(Any)") /\ Len(Strip(line)) > Len(" = Undefined(Any)")

\* the name a placeholder line declares
PlaceholderName(line) ==
    SubSeq(Strip(line), 1, Len(Strip(line)) - Len(" = Undefined(Any)"))

\* the line is a signature line
IsDefLine(line) == StartsWith(Strip(line), "def ") /\ SepAt(Strip(line), "(") # {}

\* the name a signature line declares
DefName(line) ==
    LET t == Strip(line)
        open == CHOOSE i \in SepAt(t, "(") : \A j \in SepAt(t, "(") : i <= j
    IN  IF open <= 5 THEN "" ELSE SubSeq(t, 5, open - 1)

\* statement o without the private functions in it, in any scope
RECURSIVE StripPrivateFuncs(_), StripPrivateFuncsAll(_)
StripPrivateFuncs(o) ==
    CASE o.kind = "ClassDef" -> [o EXCEPT !.defs = StripPrivateFuncsAll(@)]
      [] o.kind = "IfStmt" ->
            [o EXCEPT !.body = [k \in 1..Len(@) |-> StripPrivateFuncsAll(@[k])],
                      !.else_body = StripPrivateFuncsAll(@)]
      [] OTHER -> o

StripPrivateFuncsAll(stmts) ==
    IF stmts = <<>> THEN <<>>
    ELSE LET o == Head(stmts)
         IN  IF o.kind = "FuncDef" /\ PrivateName(o.name)
             THEN StripPrivateFuncsAll(Tail(stmts))
             ELSE <<StripPrivateFuncs(o)>> \o StripPrivateFuncsAll(Tail(stmts))

\* no line of the Output Buffer declares a variable or function of a private name
NoPrivateDeclarationLine ==
    LET L == Lines(self)
    IN  \A k \in 1..Len(L) :
            /\ IsPlaceholderLine(L[k]) => ~PrivateName(PlaceholderName(L[k]))
            /\ IsDefLine(L[k]) => ~PrivateName(DefName(L[k]))

----------------------------------------------------------------------------
(* C3: in every reachable state the Output Buffer holds no placeholder     *)
(* line `<name> = Undefined(Any)` and no signature line `def <name>(` for  *)
(* a private name, in any scope; and visiting a private function changes   *)
(* nothing of the generator: at top level the visit leaves every field as  *)
(* it was, and inside a class or conditional the visit of the enclosing    *)
(* statement ends as if the private functions were not there.              *)
C3_PrivacyFilter ==
    /\ [](NoPrivateDeclarationLine)
    /\ [][ TopLevelStep =>
              LET o == module.defs[pc]
              IN  IF o.kind = "FuncDef" /\ PrivateName(o.name)
                  THEN self' = self
                  ELSE self' = accept(self, StripPrivateFuncs(o))
         ]_vars

\* a private function and an assignment to `__all__` after `x = 1`:
\* only x is declared
C3_Witness ==
    /\ pc = 4
    /\ module.defs = <<AssignX, FuncPriv, AssignPriv>>
    /\ Join(self.output) = "x = Undefined(Any)\n"
    /\ self.vars = << <<"x">> >>
    /\ self.state = VAR

----------------------------------------------------------------------------
(* Reading class header lines back. *)

\* the smallest element of a non-empty set of numbers
Min(P) == CHOOSE i \in P : \A j \in P : i <= j

\* the line is a class header
IsClassLine(line) == StartsWith(Strip(line), "class ")

\* the class name of a header line
ClassLineName(line) ==
    LET t == Strip(line)
        stop == Min(SepAt(t, "(") \cup SepAt(t, ":"))
    IN  SubSeq(t, 7, stop - 1)

\* the base-list entries of a header line
ClassLineBases(line) ==
    LET t == Strip(line)
    IN  IF SepAt(t, "(") = {} THEN <<>>
        ELSE Split(SubSeq(t, Min(SepAt(t, "(")) + 1, Min(SepAt(t, ")")) - 1), ", ")

\* the class definitions among the statements, in any scope
RECURSIVE AllClasses(_)
AllClasses(stmts) ==
    IF stmts = <<>> THEN {}
    ELSE LET o == Head(stmts)
             here == IF o.kind = "ClassDef" THEN {o} ELSE {}
             below == IF o.kind \in {"ClassDef", "IfStmt"}
                      THEN AllClasses(Children(o)) ELSE {}
         IN  here \cup below \cup AllClasses(Tail(stmts))

\* the names that occur as bare-name base references of class c
BareBaseNames(c) ==
    {c.base_type_exprs[k].name :
        k \in {j \in 1..Len(c.base_type_exprs) : c.base_type_exprs[j].kind = "NameExpr"}}

\* the private names among the bare-name base references of the module
PrivateBaseNames ==
    {p \in UNION {BareBaseNames(c) : c \in AllClasses(module.defs)} : PrivateName(p)}

----------------------------------------------------------------------------
(* C4: the privacy filter does not reach base lists.  A class header lists *)
(* a private name as a base exactly when the class has it as a bare-name   *)
(* base reference and the name is that of a collected class or ends with   *)
(* "Exception" or "Error".                                                 *)
C4_PrivateBasesKept ==
    LET L == Lines(self)
    IN  \A k \in 1..Len(L) : IsClassLine(L[k]) =>
            \A p \in PrivateBaseNames :
                InList(p, ClassLineBases(L[k])) <=>
                    \E c \in AllClasses(module.defs) :
                        /\ c.name = ClassLineName(L[k])
                        /\ p \in BareBaseNames(c)
                        /\ \/ p \in find_classes(module)
                           \/ EndsWith(p, "Exception")
                           \/ EndsWith(p, "Error")

\* C4 as stated: no class header lists a private name as a base
C4_Original ==
    LET L == Lines(self)
    IN  \A k \in 1..Len(L) : IsClassLine(L[k]) =>
            \A j \in 1..Len(ClassLineBases(L[k])) :
                ~PrivateName(ClassLineBases(L[k])[j])

\* class _P and then class A(X, _P, m.B, KeyError, _AppError)
C4_Witness ==
    /\ pc = 3
    /\ Len(module.defs) = 2
    /\ module.defs[1].kind = "ClassDef" /\ module.defs[1].name = "_P"
    /\ module.defs[2].kind = "ClassDef" /\ module.defs[2].name = "A"
    /\ Lines(self) = <<"class _P(A): pass", "class A(_P, KeyError, _AppError): pass">>

----------------------------------------------------------------------------
\* the width of the indentation of a line
IndentOf(line) == Len(line) - Len(Strip(line))

(* C5: in every reachable state, each scope (the module, or one visit of a *)
(* class body) has at most one placeholder line per name in the Output     *)
(* Buffer: two equal placeholder lines are always separated by a line of   *)
(* shallower indentation, that is, they belong to different class bodies,  *)
(* and no placeholder line of the module scope occurs twice.               *)
C5_Deduplication ==
    LET L == Lines(self)
    IN  \A i \in 1..Len(L) : \A j \in (i + 1)..Len(L) :
            IsPlaceholderLine(L[i]) /\ L[i] = L[j] =>
                \E k \in (i + 1)..(j - 1) : IndentOf(L[k]) < IndentOf(L[i])

\* `x = 1`, a function that assigns self.y twice and self.x, `x = 1` again:
\* x and y are declared once each in the module scope
C5_Witness ==
    /\ pc = 4
    /\ module.defs = <<AssignX, FuncInit, AssignX>>
    /\ Count("x = Undefined(Any)", Lines(self)) = 1
    /\ Count("y = Undefined(Any)", Lines(self)) = 1
    /\ self.vars = << <<"x", "y">> >>

----------------------------------------------------------------------------
(* Reading the input back: classes, their methods and the names a scope    *)
(* declares.                                                               *)

\* the attribute names the statements assign on `self`, in order
RECURSIVE SelfAssigned(_)
SelfAssigned(stmts) ==
    IF stmts = <<>> THEN <<>>
    ELSE LET o == Head(stmts)
             here ==
                IF o.kind = "AssignmentStmt"
                THEN IF /\ o.lvalues[1].kind = "MemberExpr"
                        /\ o.lvalues[1].expr = NameExpr("self")
                     THEN <<o.lvalues[1].name>> ELSE <<>>
                ELSE IF o.kind \in {"IfStmt", "FuncDef", "ClassDef", "Decorator"}
                THEN SelfAssigned(Children(o)) ELSE <<>>
         IN  here \o SelfAssigned(Tail(stmts))

\* xs without the repetitions of an element, in order of first occurrence
FirstOccurrences(xs) ==
    SelectSeq([k \in 1..Len(xs) |-> IF \E j \in 1..(k - 1) : xs[j] = xs[k]
                                     THEN "" ELSE xs[k]],
              LAMBDA n : n # "")

\* the names the statements declare in the scope they are visited in
RECURSIVE DeclaredBy(_)
DeclaredBy(stmts) ==
    IF stmts = <<>> THEN {}
    ELSE LET o == Head(stmts)
             here ==
                CASE o.kind = "AssignmentStmt" ->
                        {Targets(o)[k].name :
                            k \in {j \in 1..Len(Targets(o)) :
                                     Targets(o)[j].kind = "NameExpr"}}
                  [] o.kind = "FuncDef" ->
                        IF PrivateName(o.name) THEN {}
                        ELSE {SelfAssigned(o.body)[k] : k \in 1..Len(SelfAssigned(o.body))}
                  [] o.kind = "Decorator" -> DeclaredBy(<<o.func>>)
                  [] o.kind = "IfStmt" ->
                        IF IsMainGuard(o) THEN {} ELSE DeclaredBy(Children(o))
                  [] OTHER -> {}
         IN  {n \in here : ~PrivateName(n)} \cup DeclaredBy(Tail(stmts))

\* the classes among the statements with the nesting level of their header
RECURSIVE ClassesAt(_, _)
ClassesAt(stmts, d) ==
    IF stmts = <<>> THEN {}
    ELSE LET o == Head(stmts)
             here ==
                CASE o.kind = "ClassDef" ->
                        {[cls |-> o, depth |-> d]} \cup ClassesAt(o.defs, d + 1)
                  [] o.kind = "IfStmt" ->
                        IF IsMainGuard(o) THEN {} ELSE ClassesAt(Children(o), d)
                  [] OTHER -> {}
         IN  here \cup ClassesAt(Tail(stmts), d)

\* the attributes method number m of class c surfaces: assigned on `self`,
\* not private, not declared by the statements before it in the class body
Surfaced(c, m) ==
    SelectSeq(FirstOccurrences(SelfAssigned(c.defs[m].body)),
              LAMBDA n : ~PrivateName(n) /\ n \notin DeclaredBy(SubSeq(c.defs, 1, m - 1)))

\* the positions in L of the lines that begin with prefix
LinesWith(L, prefix) == {k \in 1..Len(L) : StartsWith(L[k], prefix)}

\* method number m of class c (header at level d) in the lines L: its
\* surfaced attributes are declared once each, at the indentation of the
\* class body, in order, directly before the signature line
SurfacedBeforeDef(L, c, d, m) ==
    LET f == c.defs[m]
        ind == Indent(d + 1)
        defs == LinesWith(L, ind \o "def " \o f.name \o "(")
        new == Surfaced(c, m)
    IN  Cardinality(defs) = 1 =>
            LET at == Min(defs)
            IN  /\ at > Len(new)
                /\ \A i \in 1..Len(new) :
                      /\ L[at - Len(new) + i - 1] = ind \o new[i] \o " = Undefined(Any)"
                      /\ Cardinality(LinesWith(L, ind \o new[i] \o " = Undefined(Any)")) = 1

\* the non-private methods that stand directly in the body of class c
MethodsOf(c) ==
    {m \in 1..Len(c.defs) : c.defs[m].kind = "FuncDef" /\ ~PrivateName(c.defs[m].name)}

----------------------------------------------------------------------------
(* C6: when a non-private method in a class body assigns `self.y` one or   *)
(* more times, y not private and not yet declared in that class scope,     *)
(* the visit appends exactly one line `<indent>y = Undefined(Any)` at the  *)
(* indentation of the class body, before the signature line of the method, *)
(* and the attributes of a method come in order of first occurrence.       *)
C6_ConstructorAttributes ==
    [][ TopLevelStep /\ self'.exc = "" =>
            LET L == AppendedLines
            IN  \A r \in ClassesAt(<<module.defs[pc]>>, 0) :
                    \A m \in MethodsOf(r.cls) :
                        SurfacedBeforeDef(L, r.cls, r.depth, m)
      ]_vars

\* class A with `x = 1` and then __init__, which assigns self.y twice, self._q
\* and self.x: only y is surfaced, once, before the signature line
C6_Witness ==
    /\ pc = 2
    /\ Len(module.defs) = 1
    /\ module.defs[1].kind = "ClassDef"
    /\ module.defs[1].defs = <<AssignX, FuncInit>>
    /\ Lines(self) = <<"class A(KeyError, _AppError):",
                       "    x = Undefined(Any)",
                       "    y = Undefined(Any)",
                       "    def __init__(self, n=3, *args, *, k=-1, **kw): pass">>

----------------------------------------------------------------------------
\* the statement being visited directly follows a non-private top-level function
AfterFunctionStep ==
    /\ TopLevelStep /\ pc >= 2
    /\ module.defs[pc - 1].kind = "FuncDef"
    /\ ~PrivateName(module.defs[pc - 1].name)

\* the last line of the Output Buffer is the signature line of function f
EndsWithSignatureOf(f) ==
    /\ Lines(self) # <<>>
    /\ StartsWith(Lines(self)[Len(Lines(self))], "def " \o f.name \o "(")

(* C7: a non-private top-level function visited directly after another     *)
(* appends no blank line, so none stands between the two signature lines;  *)
(* a top-level class visited directly after a non-private top-level        *)
(* function appends exactly one blank line and then its header, whether    *)
(* the class body is empty or not.                                         *)
C7_BlankLineGrouping ==
    [][ AfterFunctionStep /\ self'.exc = "" =>
            LET o == module.defs[pc]
                L == AppendedLines
            IN  /\ EndsWithSignatureOf(module.defs[pc - 1])
                /\ o.kind = "FuncDef" /\ ~PrivateName(o.name) =>
                      /\ \A k \in 1..Len(L) : L[k] # ""
                      /\ StartsWith(L[Len(L)], "def " \o o.name \o "(")
                /\ o.kind = "ClassDef" =>
                      /\ Len(L) >= 2
                      /\ L[1] = ""
                      /\ L[2] = ExpectedHeader(o)
                                   \o (IF AppendsNothing(o.defs) THEN " pass" ELSE "")
      ]_vars

\* two functions and then an empty class
C7_Witness ==
    /\ pc = 4
    /\ Len(module.defs) = 3
    /\ module.defs[1] = FuncF /\ module.defs[2] = FuncF
    /\ IsEmptyClass(module.defs[3])
    /\ Lines(self) = <<"def f(x=Undefined): pass", "def f(x=Undefined): pass", "",
                       "class A(KeyError, _AppError): pass">>

----------------------------------------------------------------------------
\* the base names the header of class c keeps, in source order
KeptBases(c) ==
    LET kept == SelectSeq(c.base_type_exprs, Qualifies)
    IN  [k \in 1..Len(kept) |-> kept[k].name]

(* C8: the base list of every emitted class header is exactly the          *)
(* subsequence, in source order, of the bare-name base references of the   *)
(* class whose name is in the set the class-name collector returned or     *)
(* ends with "Exception" or "Error"; when none qualifies the header has no *)
(* parentheses; and every top-level class of a written stub has its header.*)
C8_BaseClassFiltering ==
    LET L == Lines(self)
    IN  /\ \A k \in 1..Len(L) : IsClassLine(L[k]) =>
              \E c \in AllClasses(module.defs) :
                  /\ c.name = ClassLineName(L[k])
                  /\ ClassLineBases(L[k]) = KeptBases(c)
                  /\ KeptBases(c) = <<>> => SepAt(L[k], "(") \cup SepAt(L[k], ")") = {}
        /\ Written =>
              \A i \in 1..Len(module.defs) : module.defs[i].kind = "ClassDef" =>
                  \E k \in 1..Len(L) :
                      /\ StartsWith(L[k], "class " \o module.defs[i].name)
                      /\ ClassLineName(L[k]) = module.defs[i].name

\* class A(X, _P, m.B, KeyError, _AppError) and class _P(A, X): of the bases
\* of _P, A is declared and kept, X is dropped; of the bases of A, X and m.B
\* are dropped
C8_Witness ==
    /\ Written
    /\ result = "class A(_P, KeyError, _AppError): pass\nclass _P(A): pass\n"

\* class _P(A, X) in a module without a class A has no base list
C8_NoParentheses ==
    /\ Written
    /\ result = "class _P: pass\n"

----------------------------------------------------------------------------
(* Reading the input back: the entry-point conditional. *)

\* the first condition of conditional o is `__name__ == '<...__main__...>'`
IsEntryPointIf(o) ==
    /\ o.kind = "IfStmt"
    /\ o.expr[1].kind = "ComparisonExpr"
    /\ o.expr[1].operators = <<"==">>
    /\ o.expr[1].operands[1] = NameExpr("__name__")
    /\ o.expr[1].operands[2].kind = "StrExpr"
    /\ Contains(o.expr[1].operands[2].value, "__main__")

\* statement o with a no-op in place of each entry-point conditional in it
RECURSIVE WithoutEntryPoint(_), WithoutEntryPointAll(_)
WithoutEntryPoint(o) ==
    IF IsEntryPointIf(o) THEN PassStmt
    ELSE CASE o.kind = "ClassDef" -> [o EXCEPT !.defs = WithoutEntryPointAll(@)]
           [] o.kind = "IfStmt" ->
                 [o EXCEPT !.body = [k \in 1..Len(@) |-> WithoutEntryPointAll(@[k])],
                           !.else_body = WithoutEntryPointAll(@)]
           [] OTHER -> o

WithoutEntryPointAll(stmts) ==
    [k \in 1..Len(stmts) |-> WithoutEntryPoint(stmts[k])]

----------------------------------------------------------------------------
(* C9: visiting a conditional whose first condition is                     *)
(* `__name__ == '__main__'` leaves the Output Buffer, the Helper-Symbol    *)
(* Set, the Import-Line Sequence, the Declaration-Scope Stack, the         *)
(* indentation and the Formatting State unchanged, whatever declarations   *)
(* its branches contain; inside a class or another conditional, the visit  *)
(* of the enclosing statement ends as if a no-op stood in its place.       *)
C9_EntryPointSuppression ==
    [][ TopLevelStep =>
            LET o == module.defs[pc]
            IN  /\ IsEntryPointIf(o) =>
                      /\ self'.output = self.output
                      /\ self'.imports = self.imports
                      /\ self'.import_lines = self.import_lines
                      /\ self'.vars = self.vars
                      /\ self'.indent = self.indent
                      /\ self'.state = self.state
                      /\ self'.exc = ""
                /\ self' = accept(self, WithoutEntryPoint(o))
      ]_vars

\* `x = 1`, then the entry-point conditional around a function: after its
\* visit only x is declared
C9_Witness ==
    /\ pc = 3
    /\ Len(module.defs) = 2
    /\ module.defs[1] = AssignX
    /\ IsEntryPointIf(module.defs[2])
    /\ module.defs[2].body = << <<FuncF>> >>
    /\ module.defs[2].else_body = <<>>
    /\ self = visit_assignment_stmt(StubGenerator, AssignX)
    /\ Join(self.output) = "x = Undefined(Any)\n"

----------------------------------------------------------------------------
(* C10: a conditional is suppressed only when its first condition is an    *)
(* equality comparison (`==`) of the bare name `__name__` with a string    *)
(* literal containing `__main__`; every other conditional, a comparison    *)
(* of `__name__` with such a string by another operator (`!=`) included,   *)
(* is traversed normally: its visit ends as the visits of the statements   *)
(* of its branches, in order, end.                                         *)
C10_Original ==
    [][ TopLevelStep /\ module.defs[pc].kind = "IfStmt" =>
            LET o == module.defs[pc]
            IN  IF IsEntryPointIf(o)
                THEN self' = self
                ELSE self' = accept_all(self, Children(o))
      ]_vars

\* `if __name__ != '__main__': x = 1` has been visited and nothing is declared
C10_Witness ==
    /\ pc = 2
    /\ Len(module.defs) = 1
    /\ module.defs[1].kind = "IfStmt"
    /\ module.defs[1].expr[1].operators = <<"!=">>
    /\ module.defs[1].body = << <<AssignX>> >>
    /\ self.output = <<>>
    /\ self.vars = << <<>> >>
    /\ self.state = EMPTY

----------------------------------------------------------------------------
(* C11: the class-name collector returns the names of all class            *)
(* declarations of the module at any nesting depth, classes declared in    *)
(* the body of another class included; so a base reference that names a    *)
(* class nested in another class is kept in the emitted base list.         *)
C11_Original ==
    pc >= 1 =>
        /\ self.classes = {c.name : c \in AllClasses(module.defs)}
        /\ LET L == Lines(self)
           IN  \A k \in 1..Len(L) : IsClassLine(L[k]) =>
                   \A c \in AllClasses(module.defs) : c.name = ClassLineName(L[k]) =>
                       \A p \in BareBaseNames(c) :
                           (\E n \in AllClasses(module.defs) : n.name = p)
                               => InList(p, ClassLineBases(L[k]))

\* class A(X, _P, m.B, KeyError, _AppError) with class _P(A, X) in its body:
\* only A is collected, and the header of A drops _P
C11_Witness ==
    /\ pc = 2
    /\ Len(module.defs) = 1
    /\ module.defs[1].kind = "ClassDef" /\ module.defs[1].name = "A"
    /\ Len(module.defs[1].defs) = 1
    /\ module.defs[1].defs[1].kind = "ClassDef" /\ module.defs[1].defs[1].name = "_P"
    /\ self.classes = {"A"}
    /\ Lines(self) = <<"class A(KeyError, _AppError):", "class _P(A): pass">>

----------------------------------------------------------------------------
(* Reading the input back: the kind of the last module-level declaration.  *)

\* the statements with each traversed conditional replaced by its branches
RECURSIVE Flatten(_)
Flatten(stmts) ==
    IF stmts = <<>> THEN <<>>
    ELSE LET o == Head(stmts)
         IN  (IF o.kind = "IfStmt"
              THEN IF IsMainGuard(o) THEN <<>> ELSE Flatten(Children(o))
              ELSE <<o>>) \o Flatten(Tail(stmts))

\* the assignment newly declares a name in a scope where `declared` are declared
NewlyDeclares(o, declared) ==
    \E k \in 1..Len(Targets(o)) :
        /\ Targets(o)[k].kind = "NameExpr"
        /\ ~PrivateName(Targets(o)[k].name)
        /\ Targets(o)[k].name \notin declared

\* the kind of the last declaration the first n statements of fl emit
RECURSIVE KindAfter(_, _)
KindAfter(fl, n) ==
    IF n = 0 THEN EMPTY
    ELSE LET o == fl[n]
             prev == KindAfter(fl, n - 1)
             f == IF o.kind = "Decorator" THEN o.func ELSE o
         IN  CASE f.kind = "FuncDef" -> IF PrivateName(f.name) THEN prev ELSE FUNC
               [] f.kind = "ClassDef" ->
                     IF AppendsNothing(f.defs) THEN EMPTY_CLASS ELSE CLASS
               [] f.kind = "AssignmentStmt" ->
                     IF NewlyDeclares(f, DeclaredBy(SubSeq(fl, 1, n - 1)))
                     THEN VAR ELSE prev
               [] OTHER -> prev

\* the top-level statements visited so far
Visited == SubSeq(module.defs, 1, IF pc - 1 > Len(module.defs)
                                  THEN Len(module.defs) ELSE pc - 1)

\* the generator as it is before statement number k of the body of class o,
\* the class being visited from generator g
InClassBody(g, o, k) ==
    accept_all([class_header(g, o) EXCEPT !.indent = @ \o "    ",
                                          !.vars = Append(@, <<>>)],
               SubSeq(o.defs, 1, k - 1))

\* the class about to be visited at top level
AtClass == pc \in 1..Len(module.defs) /\ self.exc = "" /\ module.defs[pc].kind = "ClassDef"

----------------------------------------------------------------------------
(* C12: between top-level statements the Formatting State equals the kind  *)
(* of the most recently emitted top-level declaration (EMPTY if none).     *)
(* Inside a class body the visits set it as they do at top level: a        *)
(* non-private function leaves FUNC, an assignment that newly declares a   *)
(* name leaves VAR; the class visit overwrites it on return.               *)
C12_FormattingState ==
    /\ pc >= 1 /\ self.exc = "" =>
          self.state = KindAfter(Flatten(Visited), Len(Flatten(Visited)))
    /\ AtClass =>
          LET o == module.defs[pc]
          IN  \A k \in 1..Len(o.defs) :
                  LET before == InClassBody(self, o, k)
                      after == InClassBody(self, o, k + 1)
                  IN  before.exc = "" /\ after.exc = "" =>
                        /\ o.defs[k].kind = "FuncDef" /\ ~PrivateName(o.defs[k].name)
                              => after.state = FUNC
                        /\ o.defs[k].kind = "AssignmentStmt"
                              /\ Len(after.output) > Len(before.output)
                              => after.state = VAR

\* C12 as stated: a function or an assignment visited inside a class body
\* leaves the Formatting State unchanged
C12_Original ==
    /\ pc >= 1 /\ self.exc = "" =>
          self.state = KindAfter(Flatten(Visited), Len(Flatten(Visited)))
    /\ AtClass =>
          LET o == module.defs[pc]
          IN  \A k \in 1..Len(o.defs) :
                  LET before == InClassBody(self, o, k)
                      after == InClassBody(self, o, k + 1)
                  IN  before.exc = "" /\ after.exc = "" =>
                        (o.defs[k].kind \in {"FuncDef", "AssignmentStmt"}
                            => after.state = before.state)

\* class A with a function and then `x = 1` in its body has been visited:
\* the state was FUNC after the function, VAR after the assignment, and is
\* CLASS on return
C12_Witness ==
    /\ pc = 2
    /\ Len(module.defs) = 1
    /\ module.defs[1].kind = "ClassDef"
    /\ module.defs[1].defs = <<FuncF, AssignX>>
    /\ LET g == [StubGenerator EXCEPT !.classes = self.classes]
       IN  /\ InClassBody(g, module.defs[1], 1).state = EMPTY
           /\ InClassBody(g, module.defs[1], 2).state = FUNC
           /\ InClassBody(g, module.defs[1], 3).state = VAR
           /\ self = visit_class_def(g, module.defs[1])
    /\ self.state = CLASS

----------------------------------------------------------------------------
(* Reading the input back: the defaults of the rendered functions. *)

\* the parameters of o that carry a default value
Defaulted(o) == {i \in 1..Len(o.args) : o.init[i] # None}

\* what the default of a parameter is to render as: the literal table's
\* text for a default of the table, the catch-all placeholder otherwise
ExpectedDefault(rv) ==
    IF InLiteralTable(rv) THEN render_default(rv).text ELSE "Undefined"

\* some signature line of function r in L renders parameter a as `a=txt`
RendersAs(L, r, a, txt) ==
    \E k \in 1..Len(L) :
        /\ StartsWith(L[k], Indent(r.depth) \o "def " \o r.func.name \o "(")
        /\ \/ Contains(L[k], "(" \o a \o "=" \o txt \o ",")
           \/ Contains(L[k], "(" \o a \o "=" \o txt \o ")")
           \/ Contains(L[k], ", " \o a \o "=" \o txt \o ",")
           \/ Contains(L[k], ", " \o a \o "=" \o txt \o ")")

----------------------------------------------------------------------------
(* C13: rendering a default value never aborts the run, whatever the       *)
(* shape of the default expression, and in the written stub every default  *)
(* that is not an integer, string, byte-string or float literal, a unary   *)
(* negation of a literal, or the bare name `None` reads `Undefined`.       *)
(* The code reads `.value` of the operand of every unary expression and    *)
(* never looks at the operator: the statement does not hold.               *)
C13_Original ==
    /\ self.exc # "AttributeError"
    /\ Written =>
          \A r \in RenderedFuncs(module.defs, 0) : \A i \in Defaulted(r.func) :
              RendersAs(Lines(self), r, r.func.args[i],
                        ExpectedDefault(r.func.init[i].rvalue))

\* `def neg(d=-y)` alone: the visit of the function aborts the run after
\* the opening of the signature, and nothing is written
C13_Witness ==
    /\ module.defs = <<FuncNegName>>
    /\ pc = 2
    /\ self.exc = "AttributeError"
    /\ self.output = <<"def neg(">>
    /\ result = ""

\* `def plus(d=+1)` alone: the default is written as a negation
C13_PlusAsMinus ==
    /\ module.defs = <<FuncPlus>>
    /\ Written
    /\ result = "def plus(d=-1): pass\n"

----------------------------------------------------------------------------
(* Reading the input back: the visits of empty classes. *)

\* a class visit from generator g reserves no blank-line slot: the class is
\* nested at non-zero indentation, or it is the first declaration
ReservesNothing(g) == g.indent # "" \/ g.state = EMPTY

\* the fragments with the trailing newline of the last rewritten to ` pass`
Collapsed(frags) ==
    [frags EXCEPT ![Len(frags)] = StrPrefix(@, Len(@) - 1) \o " pass\n"]

\* the visits of empty classes that start when the top-level class o is
\* visited from generator g: that of o itself, and those of the classes of
\* its body, each with the generator it starts from
EmptyClassVisits(g, o) ==
    (IF IsEmptyClass(o) THEN {[from |-> g, class |-> o]} ELSE {})
    \cup {[from |-> InClassBody(g, o, k), class |-> o.defs[k]] :
            k \in {j \in 1..Len(o.defs) :
                     IsEmptyClass(o.defs[j]) /\ InClassBody(g, o, j).exc = ""}}

----------------------------------------------------------------------------
(* C14: the visit of a class whose body appended nothing, when it reserved *)
(* no blank-line slot itself (nested class, or first declaration),         *)
(* retracts nothing, completes without error and only rewrites the         *)
(* header's trailing newline into ` pass`, also when the Formatting State  *)
(* is EMPTY_CLASS on return.  The code blanks `self._output[sep]` whenever *)
(* the state is EMPTY_CLASS, with `sep` bound only at top level: the       *)
(* statement does not hold.                                                *)
C14_Original ==
    /\ self.exc # "UnboundLocalError"
    /\ AtClass =>
          \A v \in EmptyClassVisits(self, module.defs[pc]) :
              ReservesNothing(v.from) =>
                  LET after == visit_class_def(v.from, v.class)
                  IN  /\ after.exc = ""
                      /\ after.output = Collapsed(class_header(v.from, v.class).output)
                      /\ after.state = EMPTY_CLASS

\* class A with two empty classes in its body: the second is visited while
\* the state is EMPTY_CLASS, and its visit aborts the run
C14_Witness ==
    /\ pc = 2
    /\ module.defs = <<ClassDef("A", ClsA.bases,
                                <<ClassDef("_P", ClsP.bases, <<PassStmt>>),
                                  ClassDef("_P", ClsP.bases, <<PassStmt>>)>>)>>
    /\ self.exc = "UnboundLocalError"
    /\ Lines(self) = <<"class A(KeyError, _AppError):", "class _P(A): pass",
                       "class _P(A):">>

\* an empty class first in the module, or nested after a declaration that
\* is not an empty class, collapses as stated
C14_CollapsesElsewhere ==
    /\ pc = 2
    /\ module.defs = <<ClassDef("A", ClsA.bases,
                                <<AssignX, ClassDef("_P", ClsP.bases, <<PassStmt>>)>>)>>
    /\ self.exc = ""
    /\ Lines(self) = <<"class A(KeyError, _AppError):", "    x = Undefined(Any)",
                       "class _P(A): pass">>

----------------------------------------------------------------------------
(* Reading the run back: the generator at every point of a visit. *)

\* the number of 4-space units of an indentation
IndentUnits(indent) == Len(indent) \div 4

\* the generator at every point between two statements while the block
\* stmts is visited from generator g inside d class bodies, the points
\* inside nested classes, conditionals and decorated functions included,
\* each with the number of class bodies being visited there
RECURSIVE Inside(_, _, _)
Inside(g, stmts, d) ==
    {[gen |-> g, depth |-> d]} \cup
    (IF stmts = <<>> \/ g.exc # "" THEN {}
     ELSE LET o == Head(stmts)
              within ==
                 CASE o.kind = "ClassDef" ->
                         Inside(InClassBody(g, o, 1), Children(o), d + 1)
                   [] o.kind = "IfStmt" ->
                         IF IsMainGuard(o) THEN {} ELSE Inside(g, Children(o), d)
                   [] o.kind = "Decorator" ->
                         Inside(decorator_lines(g, o.decorators), Children(o), d)
                   [] OTHER -> {}
          IN  within \cup Inside(accept(g, o), Tail(stmts), d))

\* sequence p is a prefix of sequence q
IsPrefix(p, q) == Len(p) <= Len(q) /\ \A k \in 1..Len(p) : q[k] = p[k]

----------------------------------------------------------------------------
(* C15: the depth of the Declaration-Scope Stack is always 1 plus the      *)
(* number of 4-space units of the indentation, also in a run that a visit  *)
(* aborted; at every point of a visit that has not aborted, that number is *)
(* the number of class bodies being visited, so that every class visit     *)
(* that returns leaves the depth and the indentation it was entered with;  *)
(* the module-level set is never popped (it only grows); between top-level *)
(* statements and at the end of the run the stack holds the module set     *)
(* alone and the indentation is empty.                                     *)
C15_ScopeBalance ==
    /\ Len(self.vars) = 1 + IndentUnits(self.indent)
    /\ Len(self.indent) = 4 * IndentUnits(self.indent)
    /\ self.exc = "" => self.indent = "" /\ Len(self.vars) = 1
    /\ pc \in 1..Len(module.defs) /\ self.exc = "" =>
          \A p \in Inside(self, <<module.defs[pc]>>, 0) :
              /\ Len(p.gen.vars) = 1 + IndentUnits(p.gen.indent)
              /\ Len(p.gen.indent) = 4 * IndentUnits(p.gen.indent)
              /\ IsPrefix(self.vars[1], p.gen.vars[1])
              /\ p.gen.exc = "" => IndentUnits(p.gen.indent) = p.depth
              /\ p.gen.exc # "" => IndentUnits(p.gen.indent) >= p.depth

\* class A holding class _P holding `x = 1`, visited: inside the inner body
\* the indentation was 8 spaces and the stack 3 deep, with x declared in
\* the innermost scope only; after the visit both are back at module level
C15_Witness ==
    /\ pc = 2
    /\ module.defs = <<ClassDef("A", ClsA.bases,
                                <<ClassDef("_P", ClsP.bases, <<AssignX>>)>>)>>
    /\ self.exc = ""
    /\ self.indent = ""
    /\ self.vars = <<<<>>>>
    /\ \E p \in Inside([StubGenerator EXCEPT !.classes = self.classes],
                       module.defs, 0) :
          /\ p.depth = 2
          /\ p.gen.indent = "        "
          /\ p.gen.vars = <<<<>>, <<>>, <<"x">>>>

----------------------------------------------------------------------------
(* Reading the output back: decorator lines. *)

\* the line is a decorator line
IsDecoratorLine(line) == StartsWith(Strip(line), "@")

\* the decorator lines that a decorated function is to carry
DecoratorTexts(o) ==
    {"@" \o o.decorators[k].name :
        k \in {j \in 1..Len(o.decorators) :
                 /\ o.decorators[j].kind = "NameExpr"
                 /\ o.decorators[j].name \in {"property", "staticmethod",
                                              "classmethod"}}}
    \cup {"@" \o o.decorators[k].expr.name \o ".setter" :
            k \in {j \in 1..Len(o.decorators) :
                     /\ o.decorators[j].kind = "MemberExpr"
                     /\ o.decorators[j].name = "setter"
                     /\ o.decorators[j].expr.kind = "NameExpr"}}

\* the decorated functions that are not skipped as private
RECURSIVE RenderedDecorated(_)
RenderedDecorated(stmts) ==
    IF stmts = <<>> THEN {}
    ELSE LET o == Head(stmts)
             here ==
                CASE o.kind = "Decorator" ->
                        IF PrivateName(o.func.name) THEN {} ELSE {o}
                  [] o.kind = "ClassDef" -> RenderedDecorated(o.defs)
                  [] o.kind = "IfStmt" ->
                        IF IsMainGuard(o) THEN {} ELSE RenderedDecorated(Children(o))
                  [] OTHER -> {}
         IN  here \cup RenderedDecorated(Tail(stmts))

\* the signature line that the decorator lines from line k on lead to, with
\* nothing but decorator lines in between; 0 if there is none
RECURSIVE FollowingDef(_, _)
FollowingDef(L, k) ==
    IF k + 1 > Len(L) THEN 0
    ELSE IF IsDefLine(L[k + 1]) THEN k + 1
    ELSE IF IsDecoratorLine(L[k + 1]) THEN FollowingDef(L, k + 1)
    ELSE 0

----------------------------------------------------------------------------
(* C16: every decorator line of the Output Buffer is followed, through     *)
(* decorator lines only, by the signature line of the function it          *)
(* decorates, at the same indentation: no blank line, placeholder line or  *)
(* other declaration comes in between, and a function skipped as private   *)
(* leaves no decorator line.  The code emits the decorator lines before    *)
(* the function visit decides on privacy and on the blank separator: the   *)
(* statement does not hold.                                                *)
C16_Original ==
    LET L == Lines(self)
    IN  \A k \in 1..Len(L) : IsDecoratorLine(L[k]) =>
            LET d == FollowingDef(L, k)
            IN  /\ d # 0
                /\ IndentOf(L[d]) = IndentOf(L[k])
                /\ \E o \in RenderedDecorated(module.defs) :
                      /\ o.func.name = DefName(L[d])
                      /\ Strip(L[k]) \in DecoratorTexts(o)

\* `x = 1` and then the decorated f: the blank separator of the function
\* comes between the decorator lines and the signature line
C16_Witness ==
    /\ module.defs = <<AssignX, DecF>>
    /\ Written
    /\ result = "from typing import Undefined, Any\n\nx = Undefined(Any)\n"
                    \o "@property\n@f.setter\n\ndef f(x=Undefined): pass\n"

\* the decorated private function _p alone: its decorator line is all that
\* is written
C16_PrivateDecorated ==
    /\ module.defs = <<DecPriv>>
    /\ Written
    /\ result = "@staticmethod\n"

\* inside a class, and at top level after a function, the decorator lines
\* sit directly on the signature line
C16_Adjacent ==
    /\ module.defs = <<ClassDef("A", ClsA.bases, <<DecF>>)>>
    /\ Written
    /\ result = "from typing import Undefined\n\nclass A(KeyError, _AppError):\n"
                    \o "    @property\n    @f.setter\n    def f(x=Undefined): pass\n"

----------------------------------------------------------------------------
(* C17: every blank line of the Output Buffer is followed by a declaration *)
(* line, so the buffer never holds two blank lines in a row nor ends with  *)
(* one; and the visit of a top-level assignment none of whose name targets *)
(* is newly declared (all private or already declared) appends nothing.    *)
(* The code appends the blank separator at the first name target, before   *)
(* add_init decides whether anything is declared: the statement does not   *)
(* hold.                                                                   *)
C17_Original ==
    self.exc = "" =>
        /\ LET L == Lines(self)
           IN  \A k \in 1..Len(L) : L[k] = "" => k < Len(L) /\ L[k + 1] # ""
        /\ Visiting("AssignmentStmt")
              /\ ~NewlyDeclares(module.defs[pc], DeclaredBy(Flatten(Visited)))
              => visit_assignment_stmt(self, module.defs[pc]).output = self.output

\* `def f(...)` and then `[a.b, __all__] = some_call()`: nothing is
\* declared by the assignment, and the stub ends with a blank line
C17_Witness ==
    /\ module.defs = <<FuncF, AssignPriv>>
    /\ Written
    /\ result = "from typing import Undefined\n\ndef f(x=Undefined): pass\n\n"

\* the same with `x = 1` before and after the function: the second `x = 1`
\* declares nothing and leaves a blank line
C17_Redeclared ==
    /\ module.defs = <<AssignX, FuncF, AssignX>>
    /\ Written
    /\ result = "from typing import Undefined, Any\n\nx = Undefined(Any)\n\n"
                    \o "def f(x=Undefined): pass\n\n"

----------------------------------------------------------------------------
(* Reading the output back: parameter lists. *)

\* the entries of the parameter list of a signature line
ParamsOf(line) ==
    LET t == Strip(line)
        open == CHOOSE i \in SepAt(t, "(") : \A j \in SepAt(t, "(") : i <= j
        close == Len(t) - Len("): pass")
    IN  IF close <= open THEN <<>> ELSE Split(SubSeq(t, open + 1, close), ", ")

\* the entry is a star marker: a bare `*` or a star-args parameter `*name`
IsStarMarker(entry) == StartsWith(entry, "*") /\ ~StartsWith(entry, "**")

\* the positions of the star markers of a parameter list
StarMarkers(params) == {k \in 1..Len(params) : IsStarMarker(params[k])}

----------------------------------------------------------------------------
(* C18: every rendered parameter list holds at most one star marker,       *)
(* counting a bare `*` and a `*name` parameter alike, and a bare `*` never *)
(* comes after a `*name` entry.  The code inserts the bare `*` unless a    *)
(* bare `*` is already in the list, whether or not a `*name` is: the       *)
(* statement does not hold.                                                *)
C18_Original ==
    LET L == Lines(self)
    IN  \A k \in 1..Len(L) : IsDefLine(L[k]) /\ EndsWith(L[k], "): pass") =>
            LET params == ParamsOf(L[k])
            IN  /\ Cardinality(StarMarkers(params)) <= 1
                /\ \A i, j \in StarMarkers(params) :
                      i < j => ~(params[i] # "*" /\ params[j] = "*")

\* `def __init__(self, n=3, *args, k=-1, **kw)` alone: the signature is
\* written with `*args` and a bare `*`
C18_Witness ==
    /\ module.defs = <<FuncInit>>
    /\ Written
    /\ result = "from typing import Undefined, Any\n\ny = Undefined(Any)\n"
                    \o "x = Undefined(Any)\n"
                    \o "def __init__(self, n=3, *args, *, k=-1, **kw): pass\n"

\* `def kw(a, *, k=1, m=2)` alone: one bare `*`, before the first
\* keyword-only parameter
C18_OneMarker ==
    /\ module.defs = <<FuncKw>>
    /\ Written
    /\ result = "def kw(a, *, k=1, m=2): pass\n"

----------------------------------------------------------------------------
(* Reading the run back: every statement visit with its nesting level. *)

\* the statement visits made while the block stmts is visited from
\* generator g inside d class bodies, those of nested class bodies and of
\* conditionals included, each with the generator it starts from
RECURSIVE Steps(_, _, _)
Steps(g, stmts, d) ==
    IF stmts = <<>> \/ g.exc # "" THEN {}
    ELSE LET o == Head(stmts)
             within ==
                CASE o.kind = "ClassDef" ->
                        Steps(InClassBody(g, o, 1), Children(o), d + 1)
                  [] o.kind = "IfStmt" ->
                        IF IsMainGuard(o) THEN {} ELSE Steps(g, Children(o), d)
                  [] OTHER -> {}
         IN  {[from |-> g, stmt |-> o, depth |-> d]}
                \cup within \cup Steps(accept(g, o), Tail(stmts), d)

\* the lines a visit appended, given the generator before and after it
LinesAppended(before, after) ==
    IF Len(after.output) <= Len(before.output) THEN <<>>
    ELSE FragmentLines(SubSeq(after.output, Len(before.output) + 1,
                              Len(after.output)), "")

----------------------------------------------------------------------------
(* C19: every declaration line appended while a class body is visited      *)
(* starts with 4 spaces per enclosing class body: the placeholder,         *)
(* signature and decorator lines of a function, decorated function or      *)
(* assignment, and the header line of a nested class; lines appended at    *)
(* module level start at column zero.  The code writes the class header    *)
(* without the indentation: the statement does not hold.                   *)
C19_Original ==
    pc \in 1..Len(module.defs) /\ self.exc = "" =>
        \A v \in Steps(self, <<module.defs[pc]>>, 0) :
            LET after == accept(v.from, v.stmt)
                A == LinesAppended(v.from, after)
            IN  after.exc = "" /\ A # <<>> =>
                    CASE v.stmt.kind \in {"FuncDef", "Decorator", "AssignmentStmt"} ->
                            \A k \in 1..Len(A) :
                                A[k] # "" => IndentOf(A[k]) = 4 * v.depth
                      [] v.stmt.kind = "ClassDef" ->
                            \E k \in 1..Len(A) :
                                /\ IsClassLine(A[k])
                                /\ \A j \in 1..(k - 1) : A[j] = ""
                                /\ IndentOf(A[k]) = 4 * v.depth
                      [] OTHER -> TRUE

\* class A holding class _P, which holds `x = 1`: the header of _P is
\* written at column zero, its attribute 8 spaces in
C19_Witness ==
    /\ module.defs = <<ClassDef("A", ClsA.bases,
                                <<ClassDef("_P", ClsP.bases, <<AssignX>>)>>)>>
    /\ Written
    /\ result = "from typing import Undefined, Any\n\n"
                    \o "class A(KeyError, _AppError):\n"
                    \o "class _P(A):\n        x = Undefined(Any)\n"

\* an assignment and a function in a class body are written 4 spaces in,
\* the attributes of the function included
C19_MembersIndented ==
    /\ module.defs = <<ClassDef("A", ClsA.bases, <<AssignX, FuncInit>>)>>
    /\ Written
    /\ result = "from typing import Undefined, Any\n\n"
                    \o "class A(KeyError, _AppError):\n    x = Undefined(Any)\n"
                    \o "    y = Undefined(Any)\n"
                    \o "    def __init__(self, n=3, *args, *, k=-1, **kw): pass\n"

====
